---- MODULE Spec2Model ----
(***************************************************************************)
(* Centromere repeat-array simulation engine (src/simulation.py) and the   *)
(* collaborators that touch its state: the process-wide random generators  *)
(* (random, numpy.random), the colorizer that reseeds numpy.random         *)
(* (src/colorizer.py) and the visualizer's bounding toggle                 *)
(* (src/visualizer.py).                                                    *)
(*                                                                         *)
(* Python indices are kept 0-based as in the source; TLA+ sequences are    *)
(* 1-based, so unit i of the source is units[i + 1] here.                  *)
(***************************************************************************)
EXTENDS Integers, Sequences, FiniteSets, TLC

\* ------------------------------------------------------------------ bounds
\* Largest values the Poisson draws take in the model (the real draws are
\* unbounded): SNPs per generation, INDELs per generation, units per INDEL.
MaxSnps == 1
MaxIndels == 1
MaxIndelSize == 2
\* Generations after which no further step() is started.
MaxGen == 2
\* Units a run may add to its initial array before the model stops following it.
MaxGrowth == 2
\* The failure counter is an unbounded Python int that the code only compares
\* with max_consecutive_failures (at most FailCap - 1 below): it saturates here.
FailCap == 4
\* Calls a driver makes on an engine whose calls it logs.
MaxCalls == 3
\* RepeatSequence operations applied in a row to one array, and the units an
\* array may reach through them.
MaxOps == 2
MaxUnits == 4

\* ------------------------------------------------------------ basic values
BASES == <<"A", "C", "G", "T">>

None == "None"

Min(a, b) == IF a < b THEN a ELSE b

Max(a, b) == IF a > b THEN a ELSE b

Range(s) == {s[i] : i \in 1..Len(s)}

\* A faulty candidate list, "list(BASES)": the current base is not left out.
AllBases(old_base) == BASES

\* [b for b in BASES if b != old_base]
OtherBases(old_base) == SelectSeq(BASES, LAMBDA b : b # old_base)

\* ------------------------------------------------- Python list primitives
\* Python's slice index normalisation: negative counts from the end, then clamp.
PySliceIdx(i, n) == IF i < 0 THEN Max(i + n, 0) ELSE Min(i, n)

\* lst[start:end]
PySlice(lst, start, end) ==
    LET s == PySliceIdx(start, Len(lst))
        e == PySliceIdx(end, Len(lst))
    IN  IF s < e THEN SubSeq(lst, s + 1, e) ELSE <<>>

\* lst[at:at] = ins
PyInsert(lst, at, ins) ==
    LET a == PySliceIdx(at, Len(lst))
    IN  SubSeq(lst, 1, a) \o ins \o SubSeq(lst, a + 1, Len(lst))

\* del lst[start:end]
PyDelSlice(lst, start, end) ==
    LET s == PySliceIdx(start, Len(lst))
        e == PySliceIdx(end, Len(lst))
    IN  IF s < e THEN SubSeq(lst, 1, s) \o SubSeq(lst, e + 1, Len(lst)) ELSE lst

\* lst[i] : the 1-based position addressed, 0 when Python raises IndexError.
PyIndex(i, n) ==
    IF 0 <= i /\ i < n THEN i + 1
    ELSE IF i < 0 /\ i + n >= 0 THEN i + n + 1
    ELSE 0

\* ---------------------------------------------------- heap of bytearrays
\* A RepeatSequence holds references to bytearray objects; h maps each live
\* reference to the object's content.
Fresh(h) == CHOOSE r \in 1..(Cardinality(DOMAIN h) + 1) :
                /\ r \notin DOMAIN h
                /\ \A q \in 1..(r - 1) : q \in DOMAIN h

RECURSIVE AllocCopies(_, _)
\* [bytearray(c) for c in contents] : one new object per element.
AllocCopies(h, contents) ==
    IF contents = <<>> THEN [heap |-> h, refs |-> <<>>]
    ELSE LET r    == Fresh(h)
             h1   == [x \in DOMAIN h \cup {r} |-> IF x = r THEN contents[1] ELSE h[x]]
             rest == AllocCopies(h1, Tail(contents))
         IN  [heap |-> rest.heap, refs |-> <<r>> \o rest.refs]

\* Objects no list refers to any more are freed (reference counting).
Collect(h, live) == [x \in DOMAIN h \cap live |-> h[x]]

\* ------------------------------------------------------- RepeatSequence
\* RepeatSequence.from_monomer: num_copies new bytearrays of the monomer.
from_monomer(h, monomer, num_copies) ==
    LET a == AllocCopies(h, [i \in 1..Max(num_copies, 0) |-> monomer])
    IN  [heap |-> a.heap,
         seq  |-> [repeat_size |-> Len(monomer), units |-> a.refs]]

RECURSIVE Chunks(_, _)
\* [sequence[i:i+repeat_size] for i in range(0, len(sequence), repeat_size)]
Chunks(sequence, repeat_size) ==
    IF sequence = <<>> THEN <<>>
    ELSE <<PySlice(sequence, 0, repeat_size)>>
         \o Chunks(PySlice(sequence, repeat_size, Len(sequence)), repeat_size)

\* RepeatSequence.from_sequence: one new bytearray per chunk of the string.
from_sequence(h, sequence, repeat_size) ==
    LET a == AllocCopies(h, Chunks(sequence, repeat_size))
    IN  [heap |-> a.heap,
         seq  |-> [repeat_size |-> repeat_size, units |-> a.refs]]

\* RepeatSequence.num_units
num_units(seq) == Len(seq.units)

\* RepeatSequence.__len__
seq_len(seq) == IF seq.units = <<>> THEN 0 ELSE Len(seq.units) * seq.repeat_size

\* RepeatSequence.get_unit / the content of every unit, in order.
get_unit(h, seq, idx) == h[seq.units[PyIndex(idx, Len(seq.units))]]

Contents(h, seq) == [i \in 1..Len(seq.units) |-> h[seq.units[i]]]

\* A faulty duplicate_units, "units_to_insert = self.units[start:end]": the
\* inserted entries are the same bytearray objects, not copies.
duplicate_units_shared(h, seq, start, end) ==
    [heap |-> h,
     seq  |-> [seq EXCEPT !.units =
                  PyInsert(seq.units, end, PySlice(seq.units, start, end))]]

\* RepeatSequence.duplicate_units: copy units[start:end], insert the copies at end.
duplicate_units(h, seq, start, end) ==
    LET src == PySlice(seq.units, start, end)
        a   == AllocCopies(h, [i \in 1..Len(src) |-> h[src[i]]])
    IN  [heap |-> a.heap,
         seq  |-> [seq EXCEPT !.units = PyInsert(seq.units, end, a.refs)]]

\* A faulty delete_units that drops as many units from the end of the array,
\* "del self.units[len(self.units) - (end - start):]".
delete_units_trailing(h, seq, start, end) ==
    [heap |-> h,
     seq  |-> [seq EXCEPT !.units =
                  PyDelSlice(seq.units, Len(seq.units) - (end - start), Len(seq.units))]]

\* A faulty delete_units, "del self.units[start:end + 1]".
delete_units_inclusive(h, seq, start, end) ==
    [heap |-> h,
     seq  |-> [seq EXCEPT !.units = PyDelSlice(seq.units, start, end + 1)]]

\* RepeatSequence.delete_units: del units[start:end].
delete_units(h, seq, start, end) ==
    [heap |-> h,
     seq  |-> [seq EXCEPT !.units = PyDelSlice(seq.units, start, end)]]

\* RepeatSequence.__getitem__ : where bp position idx lives (repeat_size > 0).
UnitOf(seq, idx) == idx \div seq.repeat_size

PosOf(seq, idx) == idx % seq.repeat_size

seq_getitem(h, seq, idx) ==
    h[seq.units[PyIndex(UnitOf(seq, idx), Len(seq.units))]][PosOf(seq, idx) + 1]

\* A faulty __setitem__, "self.units[unit_num].insert(pos_in_unit, ord(value))":
\* the unit grows by one byte.
seq_setitem_insert(h, seq, idx, value) ==
    LET r == seq.units[PyIndex(UnitOf(seq, idx), Len(seq.units))]
    IN  [h EXCEPT ![r] = PyInsert(@, PosOf(seq, idx), <<value>>)]

\* RepeatSequence.__setitem__ : overwrite one byte of one bytearray object.
seq_setitem(h, seq, idx, value) ==
    LET r == seq.units[PyIndex(UnitOf(seq, idx), Len(seq.units))]
    IN  [h EXCEPT ![r] = [@ EXCEPT ![PosOf(seq, idx) + 1] = value]]

\* ------------------------------------------- process-wide random generators
\* random and numpy.random are module-level generators shared by everything in
\* the process.  A generator is unseeded (seeded from OS entropy at import: any
\* value may come out) or, once seed() was called, a state x of a deterministic
\* recurrence; every draw advances it.
Twist(x) == (5 * x + 3) % 16

\* The generator as the interpreter starts it.
OsEntropy == [seeded |-> FALSE, x |-> 0]

\* random.seed(seed) / np.random.seed(seed)
SeedState(seed) == [seeded |-> TRUE, x |-> seed % 16]

Advance(g) == IF g.seeded THEN [g EXCEPT !.x = Twist(g.x)] ELSE g

\* Ten draws in a row.
Advance10(g) ==
    Advance(Advance(Advance(Advance(Advance(
    Advance(Advance(Advance(Advance(Advance(g))))))))))

RECURSIVE AdvanceN(_, _)
\* n draws in a row (taken ten at a time while at least ten are left).
AdvanceN(g, n) ==
    IF n = 0 \/ ~g.seeded THEN g
    ELSE IF n >= 10 THEN AdvanceN(Advance10(g), n - 10)
    ELSE AdvanceN(Advance(g), n - 1)

\* A faulty draw with the upper end one too far, as random.randint(a, b + 1).
RandIntPastEnd(g, a, b) == IF g.seeded THEN {a + (Twist(g.x) % (b - a + 2))} ELSE a..(b + 1)

\* random.randint(a, b), a <= b: the values the next draw can return.
RandInt(g, a, b) == IF g.seeded THEN {a + (Twist(g.x) % (b - a + 1))} ELSE a..b

\* random.choice(lst): the 1-based positions the next draw can pick.
Choice(g, n) == RandInt(g, 1, n)

\* OrthogonalProjectionColorizer.__init__: seed=42 by default.
ColorizerSeed == 42

\* _compute_fixed_bounds: np.random.seed(self.seed + 1000), then n_samples
\* calls of np.random.choice.
BoundsSeedOffset == 1000

n_samples == 1000

\* A faulty Poisson draw that can be positive when lam is 0.
PoissonIgnoringRate(g, lam, cap) ==
    IF g.seeded THEN {Twist(g.x) % (cap + 1)} ELSE 0..cap

\* np.random.poisson(lam): 0 when lam is 0, else any count (up to cap).
Poisson(g, lam, cap) ==
    IF lam = 0 THEN {0}
    ELSE IF g.seeded THEN {Twist(g.x) % (cap + 1)}
    ELSE 0..cap

AfterPoisson(g, lam) == IF lam = 0 THEN g ELSE Advance(g)

\* --------------------------------------------------------------- state
Engines == {1, 2}

VARIABLES
    live,      \* the engines constructed so far
    heap,      \* bytearray objects: reference -> content
    params,    \* params[e]: the SimulationParams of engine e
    state,     \* state[e]: SimulationState (generation, seq, history, collapsed)
    hooks,     \* hooks[e]: the on_mutation / on_generation callbacks
    frame,     \* frame[e]: position and locals of the call executing on engine e
    notified,  \* notified[e]: the observer invocations since initialize(), in order
    py_rng,    \* the module-level generator of random
    np_rng,    \* the module-level generator of numpy.random
    viz,       \* the visualizer's own copy of the live-tunable parameters
    driver     \* the driver's record of the seeded engines (not program state):
               \*   seed[e], calls[e]: the seed passed and the calls made so far
               \*   owner: the engine whose seeding both generators still continue
               \*   alone[e]: every draw of e so far continued e's own seeding

vars == <<live, heap, params, state, hooks, frame, notified, py_rng, np_rng, viz,
          driver>>

\* SimulationParams(...)
SimulationParams(ir, isl, sr, mn, mx, be, n, mono, mcf) ==
    [indel_rate |-> ir, indel_size_lambda |-> isl, snp_rate |-> sr,
     min_array_size |-> mn, max_array_size |-> mx, bounding_enabled |-> be,
     initial_size |-> n, initial_monomer |-> mono,
     max_consecutive_failures |-> mcf]

\* Optional[RepeatSequence]: <<>> is None, <<seq>> is a sequence object.
NoSeq == <<>>

\* SimulationState(): generation 0, no sequence, empty history, not collapsed.
SimulationState == [generation |-> 0, seq |-> NoSeq, history |-> <<>>, collapsed |-> FALSE]

\* "if self.seq": the object exists and is truthy; Python takes the truth of a
\* RepeatSequence from its __len__, so an array of 0 base pairs is falsy.
HasSeq(st) == st.seq # NoSeq /\ seq_len(st.seq[1]) # 0

\* SimulationState.size
size(st) == IF HasSeq(st) THEN num_units(st.seq[1]) ELSE 0

\* len(self.state.seq)
bp_length(st) == IF st.seq = NoSeq THEN 0 ELSE seq_len(st.seq[1])

\* SimulationState.repeats: the unit contents, in order.
repeats(h, st) == IF HasSeq(st) THEN Contents(h, st.seq[1]) ELSE <<>>

\* A faulty event stamped with the generation before the step's increment.
MutationEventStale(g, t, pos, sz, d) ==
    [generation |-> g - 1, event_type |-> t, position |-> pos, size |-> sz, details |-> d]

\* MutationEvent(generation, event_type, position, size, details)
MutationEvent(g, t, pos, sz, d) ==
    [generation |-> g, event_type |-> t, position |-> pos, size |-> sz, details |-> d]

\* No call is executing: the locals of step()/run() do not exist.
\* last/args/ret/exc: the last call that ended, its arguments, the list it
\* returned, the exception it raised.  entry_generation: the generation counter
\* when run() was entered (kept for the checks, not a local of the code).
IdleFrame == [pc |-> "idle", caller |-> None, n_snps |-> 0, i |-> 0,
              n_indels |-> 0, count |-> 0, consecutive_failures |-> 0,
              events |-> <<>>, generations |-> 0, run_i |-> 0,
              entry_generation |-> 0,
              last |-> None, args |-> <<>>, ret |-> <<>>, exc |-> None]

\* The references held by engines other than e (their arrays stay alive).
OtherRefs(e) ==
    UNION {IF state[o].seq = NoSeq THEN {} ELSE Range(state[o].seq[1].units) :
           o \in Engines \ {e}}

Idle(e) == frame[e].pc = "idle"

\* One thread drives the process: no call starts while another is executing.
AllIdle == \A e \in Engines : Idle(e)

\* A method of engine e can be called.
Ready(e) == e \in live /\ AllIdle

\* The driver logs a call on a seeded engine (at most MaxCalls of them).
CanCall(e) ==
    Ready(e) /\ (driver.seed[e] = <<>> \/ Len(driver.calls[e]) < MaxCalls)

Called(d, e, call, arg) ==
    IF d.seed[e] = <<>> THEN d ELSE [d EXCEPT !.calls[e] = Append(@, <<call, arg>>)]

\* Engine e draws from the process-wide generators.
Drew(d, e) ==
    IF d.owner = <<e>> THEN d ELSE [d EXCEPT !.owner = <<>>, !.alone[e] = FALSE]

\* ------------------------------------------------ CentromereSimulator
\* CentromereSimulator.initialize: a new SimulationState over a new array.
\* (The previous array's objects are freed; which references the new objects
\* get is not observable.)
initialize(h, p) ==
    LET fm == from_monomer(h, p.initial_monomer, p.initial_size)
    IN  [heap  |-> fm.heap,
         state |-> [generation |-> 0, seq |-> <<fm.seq>>,
                    history |-> <<>>, collapsed |-> FALSE]]

\* consecutive_failures += 1 (saturating, see FailCap)
IncFailures(f) == Min(f + 1, FailCap)

\* A faulty range check, "if unit_end > self.state.size + 1".
OutOfRangeOffByOne(st, unit_end) == unit_end > size(st) + 1

\* _apply_indels, "if unit_end > self.state.size"
OutOfRange(st, unit_end) == unit_end > size(st)

\* _apply_indels, "if consecutive_failures >= self.params.max_consecutive_failures"
BudgetSpent(p, f) == f >= p.max_consecutive_failures

\* _apply_indels, the duplication size limit
DupRejected(p, st, indel_size) ==
    p.bounding_enabled /\ size(st) + indel_size > p.max_array_size

\* A faulty deletion size limit that ignores min_array_size.
DelNeverRejected(p, st, indel_size) == FALSE

\* _apply_indels, the deletion size limit
DelRejected(p, st, indel_size) ==
    p.bounding_enabled /\ size(st) - indel_size < p.min_array_size

\* A faulty check after the loop that is made only with bounding enabled.
PostCollapseWhenBounding(p, st) == p.bounding_enabled /\ size(st) < p.min_array_size

\* _apply_indels, "if self.state.size < self.params.min_array_size" after the loop
PostCollapse(p, st) == size(st) < p.min_array_size

\* _apply_snp, one iteration of the loop (the array is not empty): the edit
\* and its event.
snp_edit(h, st, bp_pos, k) ==
    LET old_base == seq_getitem(h, st.seq[1], bp_pos)
        new_base == OtherBases(old_base)[k]
    IN  [heap  |-> seq_setitem(h, st.seq[1], bp_pos, new_base),
         event |-> MutationEvent(st.generation, "snp", bp_pos, 1,
                                 <<old_base, new_base>>)]

\* _apply_indels, one iteration of the loop (the array is not empty) with the
\* three draws made: what becomes of the array, the counters and the flag.
\*   verdict: "break" (collapsed), "continue" (rejected) or "accept".
indel_attempt(h, p, st, fr, is_dup, indel_size, unit_start) ==
    LET unit_end == unit_start + indel_size
        fails    == IncFailures(fr.consecutive_failures)
        rejected == [verdict |-> "continue", heap |-> h, state |-> st,
                     consecutive_failures |-> fails, count |-> fr.count,
                     event |-> <<>>]
    IN  IF OutOfRange(st, unit_end) THEN
            IF BudgetSpent(p, fails)
            THEN [rejected EXCEPT !.verdict = "break",
                                  !.state = [st EXCEPT !.collapsed = TRUE]]
            ELSE rejected
        ELSE IF is_dup THEN
            IF DupRejected(p, st, indel_size) THEN rejected
            ELSE LET d == duplicate_units(h, st.seq[1], unit_start, unit_end)
                 IN  [verdict |-> "accept", heap |-> d.heap,
                      state |-> [st EXCEPT !.seq = <<d.seq>>],
                      consecutive_failures |-> 0, count |-> fr.count + 1,
                      event |-> <<MutationEvent(st.generation, "dup", unit_start,
                                     indel_size, <<unit_start, unit_end, "duplicated">>)>>]
        ELSE
            IF DelRejected(p, st, indel_size) THEN rejected
            ELSE LET d == delete_units(h, st.seq[1], unit_start, unit_end)
                 IN  [verdict |-> "accept", heap |-> d.heap,
                      state |-> [st EXCEPT !.seq = <<d.seq>>],
                      consecutive_failures |-> 0, count |-> fr.count + 1,
                      event |-> <<MutationEvent(st.generation, "del", unit_start,
                                     indel_size, <<unit_start, unit_end, "deleted">>)>>]

\* What the observer is shown by on_generation(self.state).
Snapshot(st) == [generation |-> st.generation, collapsed |-> st.collapsed,
                 size |-> size(st), nhistory |-> Len(st.history)]

\* A faulty notification that invokes a registered callback twice.
NotifyTwice(log, hook, kind, what) ==
    IF hook = None THEN log ELSE log \o <<<<kind, what>>, <<kind, what>>>>

\* "if self.on_mutation: self.on_mutation(event)" and the same for
\* on_generation: a callback is None, "records" (returns) or "raises".
Notify(log, hook, kind, what) ==
    IF hook = None THEN log ELSE Append(log, <<kind, what>>)

\* A call ends: its locals are gone; last/ret/exc tell how it ended.
Returned(call, ret) == [IdleFrame EXCEPT !.last = call, !.ret = ret]

\* A faulty end of call that swallows the exception ("except Exception: pass")
\* and returns normally.
RaisedSuppressed(call, exc) == [IdleFrame EXCEPT !.last = call]

Raised(call, exc) == [IdleFrame EXCEPT !.last = call, !.exc = exc]

\* An exception raised under frame fr (in a callback) is caught nowhere: it
\* unwinds _apply_snp/_apply_indels, step() and, when run() made the call, the
\* loop of run(), whose arguments and iteration count are kept in args.
Propagated(fr, exc) ==
    [Raised(fr.caller, exc) EXCEPT
        !.args = IF fr.caller = "run" THEN <<fr.generations, fr.run_i>> ELSE <<>>]

\* ---------------------------------------------------------------- actions
\* The references engine e holds after its array became `seq`.
LiveWith(e, st) ==
    OtherRefs(e) \cup (IF st.seq = NoSeq THEN {} ELSE Range(st.seq[1].units))

\* CentromereSimulator(params, seed): the seed, when given, reseeds both
\* process-wide generators.  (The driver's callbacks are set right after.)
Construct(e, c, seed) ==
    /\ AllIdle
    /\ e \notin live
    /\ live' = live \cup {e}
    /\ params' = [params EXCEPT ![e] = c.params]
    /\ hooks' = [hooks EXCEPT ![e] = c.hooks]
    /\ state' = [state EXCEPT ![e] = SimulationState]
    /\ py_rng' = IF seed = <<>> THEN py_rng ELSE SeedState(seed[1])
    /\ np_rng' = IF seed = <<>> THEN np_rng ELSE SeedState(seed[1])
    /\ driver' = [driver EXCEPT !.seed[e] = seed, !.calls[e] = <<>>,
                                !.owner = IF seed = <<>> THEN @ ELSE <<e>>,
                                !.alone[e] = seed # <<>>]
    /\ UNCHANGED <<heap, frame, notified, viz>>

\* sim.initialize()
Initialize(e) ==
    /\ CanCall(e)
    /\ LET r == initialize(Collect(heap, OtherRefs(e)), params[e])
       IN  /\ heap' = r.heap
           /\ state' = [state EXCEPT ![e] = r.state]
    /\ frame' = [frame EXCEPT ![e] = Returned("initialize", <<>>)]
    /\ notified' = [notified EXCEPT ![e] = <<>>]
    /\ driver' = Called(driver, e, "initialize", 0)
    /\ UNCHANGED <<live, params, hooks, py_rng, np_rng, viz>>

\* step(), lines 311-315 and the first line of _apply_snp: the generation
\* counter moves, the SNP count is drawn.
BeginStep(e, fr, d) ==
    /\ state' = [state EXCEPT ![e].generation = @ + 1]
    /\ \E n \in Poisson(np_rng, params[e].snp_rate, MaxSnps) :
           frame' = [frame EXCEPT ![e] = [fr EXCEPT !.pc = "snp_loop", !.n_snps = n,
                                                     !.i = 0, !.events = <<>>]]
    /\ np_rng' = AfterPoisson(np_rng, params[e].snp_rate)
    /\ driver' = Drew(d, e)
    /\ UNCHANGED <<live, heap, params, hooks, notified, py_rng, viz>>

\* A faulty step() without "if self.state.collapsed: return []".
StepIgnoringCollapsed(e) ==
    /\ CanCall(e)
    /\ state[e].collapsed
    /\ state[e].generation < MaxGen
    /\ BeginStep(e, [IdleFrame EXCEPT !.caller = "step"], Called(driver, e, "step", 0))

\* sim.step() on a collapsed engine: "return []".
StepOnCollapsed(e) ==
    /\ CanCall(e)
    /\ state[e].collapsed
    /\ frame' = [frame EXCEPT ![e] = Returned("step", <<>>)]
    /\ driver' = Called(driver, e, "step", 0)
    /\ UNCHANGED <<live, heap, params, state, hooks, notified, py_rng, np_rng, viz>>

\* sim.step() on an engine that is not collapsed.
StepCall(e) ==
    /\ CanCall(e)
    /\ ~state[e].collapsed
    /\ state[e].generation < MaxGen
    /\ BeginStep(e, [IdleFrame EXCEPT !.caller = "step"], Called(driver, e, "step", 0))

\* _apply_snp: one iteration of "for _ in range(n_snps)".
SnpIter(e) ==
    LET fr == frame[e]
        st == state[e]
    IN  /\ fr.pc = "snp_loop"
        /\ fr.i < fr.n_snps
        /\ size(st) # 0
        /\ \E bp_pos \in RandInt(py_rng, 0, bp_length(st) - 1) :
           \E k \in Choice(Advance(py_rng), 3) :
              LET r == snp_edit(heap, st, bp_pos, k)
              IN  /\ heap' = r.heap
                  /\ notified' = [notified EXCEPT ![e] =
                         Notify(@, hooks[e].on_mutation, "on_mutation", r.event)]
                  /\ frame' = [frame EXCEPT ![e] =
                         IF hooks[e].on_mutation = "raises"
                         THEN Propagated(fr, "ObserverError")
                         ELSE [fr EXCEPT !.i = @ + 1,
                                         !.events = Append(@, r.event)]]
        /\ py_rng' = Advance(Advance(py_rng))
        /\ driver' = Drew(driver, e)
        /\ UNCHANGED <<live, params, state, hooks, np_rng, viz>>

\* _apply_snp returns (loop over, or "break" on an empty array); _apply_indels
\* starts: the INDEL count is drawn, the counters are reset.
SnpDone(e) ==
    LET fr == frame[e]
    IN  /\ fr.pc = "snp_loop"
        /\ fr.i >= fr.n_snps \/ size(state[e]) = 0
        /\ \E n \in Poisson(np_rng, params[e].indel_rate, MaxIndels) :
               frame' = [frame EXCEPT ![e] = [fr EXCEPT !.pc = "indel_loop",
                             !.n_indels = n, !.consecutive_failures = 0, !.count = 0]]
        /\ np_rng' = AfterPoisson(np_rng, params[e].indel_rate)
        /\ driver' = Drew(driver, e)
        /\ UNCHANGED <<live, heap, params, state, hooks, notified, py_rng, viz>>

\* A faulty loop test, "while count <= n_indels".
IndelsLeftInclusive(fr) == fr.count <= fr.n_indels

\* _apply_indels: "while count < n_indels" has an iteration to make.
IndelsLeft(fr) == fr.count < fr.n_indels

\* _apply_indels: an iteration of "while count < n_indels" that finds the
\* array empty.
IndelEmpty(e) ==
    LET fr == frame[e]
    IN  /\ fr.pc = "indel_loop"
        /\ IndelsLeft(fr)
        /\ size(state[e]) = 0
        /\ state' = [state EXCEPT ![e].collapsed = TRUE]
        /\ frame' = [frame EXCEPT ![e].pc = "post"]
        /\ UNCHANGED <<live, heap, params, hooks, notified, py_rng, np_rng, viz, driver>>

\* _apply_indels: an iteration of "while count < n_indels" on a non-empty array.
IndelIter(e) ==
    LET fr == frame[e]
        st == state[e]
        p  == params[e]
    IN  /\ fr.pc = "indel_loop"
        /\ IndelsLeft(fr)
        /\ size(st) # 0
        /\ \E c \in Choice(py_rng, 2) :
           \E n \in Poisson(np_rng, p.indel_size_lambda, MaxIndelSize) :
           \E unit_start \in RandInt(Advance(py_rng), 0, size(st) - 1) :
              LET r  == indel_attempt(heap, p, st, fr, c = 1, Max(1, n), unit_start)
                  ok == r.verdict = "accept"
              IN  /\ size(r.state) <= p.initial_size + MaxGrowth
                  /\ heap' = Collect(r.heap, LiveWith(e, r.state))
                  /\ state' = [state EXCEPT ![e] = r.state]
                  /\ notified' = [notified EXCEPT ![e] =
                         IF ok THEN Notify(@, hooks[e].on_mutation, "on_mutation", r.event[1])
                         ELSE @]
                  /\ frame' = [frame EXCEPT ![e] =
                         IF ok /\ hooks[e].on_mutation = "raises"
                         THEN Propagated(fr, "ObserverError")
                         ELSE [fr EXCEPT
                                 !.pc = IF r.verdict = "break" THEN "post" ELSE @,
                                 !.consecutive_failures = r.consecutive_failures,
                                 !.count = r.count,
                                 !.events = @ \o r.event]]
        /\ py_rng' = Advance(Advance(py_rng))
        /\ np_rng' = AfterPoisson(np_rng, p.indel_size_lambda)
        /\ driver' = Drew(driver, e)
        /\ UNCHANGED <<live, params, hooks, viz>>

\* A faulty step() that assigns, "self.state.history = events".
history_assign(history, events) == events

\* step(): self.state.history.extend(events)
history_extend(history, events) == history \o events

\* The loop of _apply_indels is over: the collapse check after it, then back in
\* step(): history.extend(events), on_generation, "return events".
IndelDone(e) ==
    LET fr  == frame[e]
        st  == state[e]
        st1 == [st EXCEPT !.collapsed = @ \/ PostCollapse(params[e], st),
                          !.history = history_extend(@, fr.events)]
    IN  /\ fr.pc = "post" \/ (fr.pc = "indel_loop" /\ ~IndelsLeft(fr))
        /\ state' = [state EXCEPT ![e] = st1]
        /\ notified' = [notified EXCEPT ![e] =
               Notify(@, hooks[e].on_generation, "on_generation", Snapshot(st1))]
        /\ frame' = [frame EXCEPT ![e] =
               IF hooks[e].on_generation = "raises"
               THEN Propagated(fr, "ObserverError")
               ELSE IF fr.caller = "run"
               THEN [IdleFrame EXCEPT !.pc = "run_loop", !.caller = "run",
                                      !.generations = fr.generations,
                                      !.run_i = fr.run_i,
                                      !.entry_generation = fr.entry_generation]
               ELSE Returned("step", fr.events)]
        /\ UNCHANGED <<live, heap, params, hooks, py_rng, np_rng, viz, driver>>

\* sim.run(generations)
RunCall(e, n) ==
    /\ CanCall(e)
    /\ state[e].generation + n <= MaxGen
    /\ frame' = [frame EXCEPT ![e] = [IdleFrame EXCEPT !.pc = "run_loop",
                     !.caller = "run", !.generations = n,
                     !.entry_generation = state[e].generation]]
    /\ driver' = Called(driver, e, "run", n)
    /\ UNCHANGED <<live, heap, params, state, hooks, notified, py_rng, np_rng, viz>>

\* A faulty loop test, "for _ in range(generations + 1)".
RunHasNextInclusive(fr) == fr.run_i <= fr.generations

\* run(): "for _ in range(generations)" has an iteration left.
RunHasNext(fr) == fr.run_i < fr.generations

\* run(): an iteration of the loop that calls step().
RunIter(e) ==
    LET fr == frame[e]
    IN  /\ fr.pc = "run_loop"
        /\ RunHasNext(fr)
        /\ ~state[e].collapsed
        /\ BeginStep(e, [fr EXCEPT !.run_i = @ + 1], driver)

\* run(): the loop is over, or "break" on a collapsed engine; "return self.state".
RunReturn(e) ==
    LET fr == frame[e]
    IN  /\ fr.pc = "run_loop"
        /\ ~RunHasNext(fr) \/ state[e].collapsed
        /\ frame' = [frame EXCEPT ![e] =
               [Returned("run", <<>>) EXCEPT !.args = <<fr.generations, fr.run_i>>]]
        /\ UNCHANGED <<live, heap, params, state, hooks, notified, py_rng, np_rng, viz,
                       driver>>

\* SimulationVisualizer._on_bound_toggle: the checkbox flips the visualizer's
\* flag and writes it into the live simulator's params.
OnBoundToggle ==
    /\ AllIdle
    /\ viz' = [viz EXCEPT !.params.bounding_enabled = ~@]
    /\ params' = IF viz.sim = <<>> THEN params
                 ELSE [params EXCEPT ![viz.sim[1]].bounding_enabled =
                                         ~viz.params.bounding_enabled]
    /\ UNCHANGED <<live, heap, state, hooks, frame, notified, py_rng, np_rng, driver>>

\* --------------------------------------------------------- configurations
\* The callbacks a driver registers: none, recording ones, or one that raises.
NoHooks == [on_mutation |-> None, on_generation |-> None]

Recording == [on_mutation |-> "records", on_generation |-> "records"]

MutationRaises == [on_mutation |-> "raises", on_generation |-> None]

GenerationRaises == [on_mutation |-> None, on_generation |-> "raises"]

\* A two-base monomer (the reference monomer has 178 bases).
AC == <<"A", "C">>

Config(p, hk) == [params |-> p, hooks |-> hk]

\* The engines checked: SimulationParams(indel_rate, indel_size_lambda,
\* snp_rate, min_array_size, max_array_size, bounding_enabled, initial_size,
\* initial_monomer, max_consecutive_failures); a rate is 0 or positive (1).
Configs ==
    {\* SNPs and INDELs on a small bounded array
     Config(SimulationParams(1, 1, 1, 1, 2, TRUE, 1, AC, 2), NoHooks),
     Config(SimulationParams(1, 1, 1, 1, 2, TRUE, 2, AC, 1), Recording),
     \* no floor, no bounding: the array can be emptied
     Config(SimulationParams(1, 1, 1, 0, 4, FALSE, 1, AC, 2), Recording),
     \* floor = ceiling = size: every in-range INDEL is rejected by a bound
     Config(SimulationParams(1, 1, 0, 2, 2, TRUE, 2, AC, 1), NoHooks),
     Config(SimulationParams(1, 1, 0, 2, 2, TRUE, 2, AC, 2), Recording),
     Config(SimulationParams(1, 0, 0, 2, 2, TRUE, 2, AC, 2), NoHooks),
     \* room between floor and ceiling
     Config(SimulationParams(1, 1, 0, 2, 3, TRUE, 2, AC, 2), Recording),
     Config(SimulationParams(1, 1, 0, 1, 3, FALSE, 2, AC, 2), NoHooks),
     \* the initial size outside [min_array_size, max_array_size]
     Config(SimulationParams(1, 1, 0, 2, 3, TRUE, 1, AC, 2), NoHooks),
     Config(SimulationParams(1, 1, 0, 1, 2, TRUE, 3, AC, 2), NoHooks),
     \* min_array_size > max_array_size
     Config(SimulationParams(1, 1, 0, 3, 2, TRUE, 2, AC, 2), NoHooks),
     \* no units, or units of no bases
     Config(SimulationParams(1, 1, 1, 0, 3, FALSE, 0, AC, 2), NoHooks),
     Config(SimulationParams(1, 1, 1, 1, 2, TRUE, 1, <<>>, 2), NoHooks),
     \* both rates 0; SNPs only
     Config(SimulationParams(0, 1, 0, 1, 3, TRUE, 2, AC, 2), Recording),
     Config(SimulationParams(0, 1, 1, 1, 3, TRUE, 2, AC, 2), Recording),
     \* observers that raise
     Config(SimulationParams(1, 1, 1, 1, 2, TRUE, 1, AC, 2), MutationRaises),
     Config(SimulationParams(1, 1, 1, 1, 2, TRUE, 1, AC, 2), GenerationRaises)}

\* What the visualizer keeps of p for its sliders and checkbox.
VizParams(p) == [indel_rate |-> p.indel_rate,
                 indel_size_lambda |-> p.indel_size_lambda,
                 snp_rate |-> p.snp_rate,
                 bounding_enabled |-> p.bounding_enabled]

\* The parameters of an engine that does not exist (never read).
NoParams == SimulationParams(0, 0, 0, 0, 0, FALSE, 0, <<>>, 0)

\* The driver keeps no record: no engine is seeded.
NoDriver == [seed |-> [e \in Engines |-> <<>>], calls |-> [e \in Engines |-> <<>>],
             owner |-> <<>>, alone |-> [e \in Engines |-> FALSE]]

\* ------------------------------------------------------ the single engine
\* CentromereSimulator(p, seed=None) was constructed: nothing is seeded, no
\* array exists yet.
InitWith(configs) ==
    \E c \in configs :
        /\ live = {1}
        /\ heap = <<>>
        /\ params = [e \in Engines |-> IF e = 1 THEN c.params ELSE NoParams]
        /\ state = [e \in Engines |-> SimulationState]
        /\ hooks = [e \in Engines |-> IF e = 1 THEN c.hooks ELSE NoHooks]
        /\ frame = [e \in Engines |-> IdleFrame]
        /\ notified = [e \in Engines |-> <<>>]
        /\ py_rng = OsEntropy
        /\ np_rng = OsEntropy
        /\ viz = [params |-> VizParams(c.params), sim |-> <<1>>]
        /\ driver = NoDriver

Init == InitWith(Configs)

Next ==
    \/ Initialize(1)
    \/ StepOnCollapsed(1)
    \/ StepCall(1)
    \/ SnpIter(1)
    \/ SnpDone(1)
    \/ IndelEmpty(1)
    \/ IndelIter(1)
    \/ IndelDone(1)
    \/ \E n \in 0..MaxGen : RunCall(1, n)
    \/ RunIter(1)
    \/ RunReturn(1)
    \/ OnBoundToggle

Spec == Init /\ [][Next]_vars

\* --------------------------------------------- seeded engines, one process
\* numpy.random as _compute_fixed_bounds leaves it: reseeded with seed + 1000,
\* then n_samples sequences drawn.
AfterFixedBounds ==
    AdvanceN(SeedState(ColorizerSeed + BoundsSeedOffset), n_samples)

\* OrthogonalProjectionColorizer(seq_len): np.random.seed(seed) and the draws
\* of the projection matrix, then _compute_fixed_bounds.  numpy.random no
\* longer continues any engine's seeding.
ColorizerInit ==
    /\ AllIdle
    /\ np_rng' = AfterFixedBounds
    /\ driver' = [driver EXCEPT !.owner = <<>>]
    /\ UNCHANGED <<live, heap, params, state, hooks, frame, notified, py_rng, viz>>

\* The seeds and parameter sets the driver passes.  Every engine of a run gets
\* the same (seed, params).
Seeds == {1, 6}

DetConfigs ==
    {Config(SimulationParams(1, 1, 1, 1, 3, TRUE, 2, AC, 2), NoHooks),
     Config(SimulationParams(1, 1, 0, 0, 4, FALSE, 2, AC, 2), NoHooks),
     \* below the floor from the start: the first step() collapses the engine
     Config(SimulationParams(1, 1, 0, 2, 3, TRUE, 1, AC, 2), NoHooks)}

SameAsLive(c, seed) ==
    \A o \in live : params[o] = c.params /\ hooks[o] = c.hooks /\ driver.seed[o] = seed

Initialized(e) == state[e].seq # NoSeq

InitDet ==
    /\ live = {}
    /\ heap = <<>>
    /\ params = [e \in Engines |-> NoParams]
    /\ state = [e \in Engines |-> SimulationState]
    /\ hooks = [e \in Engines |-> NoHooks]
    /\ frame = [e \in Engines |-> IdleFrame]
    /\ notified = [e \in Engines |-> <<>>]
    /\ py_rng = OsEntropy
    /\ np_rng = OsEntropy
    /\ viz = [params |-> VizParams(NoParams), sim |-> <<>>]
    /\ driver = NoDriver

\* Each engine is constructed, initialized once, then stepped and run.
NextDet ==
    \/ \E e \in Engines, c \in DetConfigs, seed \in Seeds :
          SameAsLive(c, <<seed>>) /\ Construct(e, c, <<seed>>)
    \/ ColorizerInit
    \/ \E e \in Engines : ~Initialized(e) /\ Initialize(e)
    \/ \E e \in Engines : Initialized(e) /\ StepOnCollapsed(e)
    \/ \E e \in Engines : Initialized(e) /\ StepCall(e)
    \/ \E e \in Engines : SnpIter(e)
    \/ \E e \in Engines : SnpDone(e)
    \/ \E e \in Engines : IndelEmpty(e)
    \/ \E e \in Engines : IndelIter(e)
    \/ \E e \in Engines : IndelDone(e)
    \/ \E e \in Engines, n \in 0..MaxGen : Initialized(e) /\ RunCall(e, n)
    \/ \E e \in Engines : RunIter(e)
    \/ \E e \in Engines : RunReturn(e)

SpecDet == InitDet /\ [][NextDet]_vars

\* ------------------------------------------- the forced-collapse scenario
\* min_array_size=5, initial_size=5, indel_rate=10, bounding_enabled=True,
\* max_consecutive_failures=3, as the scenario fixes them; max_array_size and
\* indel_size_lambda as SimulationParams defaults them (50000, positive).  The
\* scenario is about the unit count: snp_rate is 0 (an SNP never changes the
\* count) and the monomer is cut to two bases.
ForcedCollapse ==
    Config(SimulationParams(10, 1, 0, 5, 50000, TRUE, 5, AC, 3), NoHooks)

InitScenario == InitWith({ForcedCollapse})

\* The array is never empty here, no SNP is drawn and nothing toggles the
\* bounding.
NextScenario ==
    \/ Initialize(1)
    \/ StepOnCollapsed(1)
    \/ StepCall(1)
    \/ SnpDone(1)
    \/ IndelIter(1)
    \/ IndelDone(1)
    \/ \E n \in 0..MaxGen : RunCall(1, n)
    \/ RunIter(1)
    \/ RunReturn(1)

SpecScenario == InitScenario /\ [][NextScenario]_vars

\* ------------------------------------------- two engines, distinct seeds
\* Engine 1 is constructed with one seed and engine 2 with another; their
\* calls interleave in any order.  Then the name of engine 2 is bound to a new
\* engine with engine 1's seed and params, which is driven on its own while
\* engine 1 rests: what engine 1's seed, params and calls produce alone.
IndepConfigs ==
    {Config(SimulationParams(1, 1, 1, 1, 3, TRUE, 2, AC, 2), NoHooks),
     \* below the floor from the start: the first step() collapses the engine
     Config(SimulationParams(1, 1, 0, 2, 3, TRUE, 1, AC, 2), NoHooks)}

\* The engine bound to name 2 is the one driven alone.
ReferenceRuns == 2 \in live /\ driver.seed[2] = driver.seed[1]

\* Engine e may be called: both engines while the seeds differ, the new
\* engine only afterwards.
Scheduled(e) == live = Engines /\ (ReferenceRuns => e = 2)

\* "b = CentromereSimulator(params, seed)" where b named an engine: the new
\* engine takes the name, the generators are reseeded.
Reconstruct(e, c, seed) ==
    /\ AllIdle
    /\ e \in live
    /\ params' = [params EXCEPT ![e] = c.params]
    /\ hooks' = [hooks EXCEPT ![e] = c.hooks]
    /\ state' = [state EXCEPT ![e] = SimulationState]
    /\ heap' = Collect(heap, OtherRefs(e))
    /\ frame' = [frame EXCEPT ![e] = IdleFrame]
    /\ notified' = [notified EXCEPT ![e] = <<>>]
    /\ py_rng' = SeedState(seed[1])
    /\ np_rng' = SeedState(seed[1])
    /\ driver' = [driver EXCEPT !.seed[e] = seed, !.calls[e] = <<>>,
                                !.owner = <<e>>, !.alone[e] = TRUE]
    /\ UNCHANGED <<live, viz>>

NextIndep ==
    \/ \E c \in IndepConfigs, seed \in Seeds :
          live = {} /\ Construct(1, c, <<seed>>)
    \/ \E c \in IndepConfigs, seed \in Seeds :
          /\ live = {1} /\ params[1] = c.params /\ driver.seed[1] # <<seed>>
          /\ Construct(2, c, <<seed>>)
    \/ \E c \in IndepConfigs :
          /\ live = Engines /\ ~ReferenceRuns /\ params[1] = c.params
          /\ Reconstruct(2, c, driver.seed[1])
    \/ \E e \in Engines : Scheduled(e) /\ ~Initialized(e) /\ Initialize(e)
    \/ \E e \in Engines : Scheduled(e) /\ Initialized(e) /\ StepOnCollapsed(e)
    \/ \E e \in Engines : Scheduled(e) /\ Initialized(e) /\ StepCall(e)
    \/ \E e \in Engines : SnpIter(e)
    \/ \E e \in Engines : SnpDone(e)
    \/ \E e \in Engines : IndelIter(e)
    \/ \E e \in Engines : IndelDone(e)

SpecIndep == InitDet /\ [][NextIndep]_vars

\* ------------------------------------------------------- the visualizer
\* SimulationVisualizer and its GUI callbacks.  viz.params is self.params,
\* viz.sim the engine self.sim names (none before show()), viz.running the
\* flag of the Start/Stop button.  The callbacks run one at a time on the GUI
\* thread: none starts while a step() is executing.  Redrawing
\* (_update_display, _refresh_colors) reads the engine and draws nothing from
\* the generators: the units have the colorizer's seq_len.

\* self.params = SimulationParams(initial_size=10000), scaled down.
VizDefaults == SimulationParams(1, 1, 1, 1, 3, TRUE, 2, AC, 2)

\* The values a slider can be moved to (a rate is 0 or positive).
SliderRates == {0, 1}

SliderSizes == {1, 2}

\* SimulationParams.copy: copy.deepcopy, a new object with equal fields.
params_copy(p) == [f \in DOMAIN p |-> p[f]]

\* SimulationVisualizer.__init__: no engine yet; the colorizer it constructs
\* has seeded numpy.random.
InitViz ==
    /\ live = {}
    /\ heap = <<>>
    /\ params = [e \in Engines |-> NoParams]
    /\ state = [e \in Engines |-> SimulationState]
    /\ hooks = [e \in Engines |-> NoHooks]
    /\ frame = [e \in Engines |-> IdleFrame]
    /\ notified = [e \in Engines |-> <<>>]
    /\ py_rng = OsEntropy
    /\ np_rng = AfterFixedBounds
    /\ viz = [params |-> VizDefaults, sim |-> <<>>, running |-> FALSE]
    /\ driver = NoDriver

\* _initialize_simulation: self.sim = CentromereSimulator(self.params.copy(),
\* seed=None); self.sim.initialize().  The engine self.sim named is dropped.
initialize_simulation(running) ==
    LET p == params_copy(viz.params)
        r == initialize(<<>>, p)
    IN  /\ live' = {1}
        /\ params' = [params EXCEPT ![1] = p]
        /\ hooks' = [hooks EXCEPT ![1] = NoHooks]
        /\ heap' = r.heap
        /\ state' = [state EXCEPT ![1] = r.state]
        /\ frame' = [frame EXCEPT ![1] = Returned("initialize", <<>>)]
        /\ notified' = [notified EXCEPT ![1] = <<>>]
        /\ viz' = [viz EXCEPT !.sim = <<1>>, !.running = running]
        /\ UNCHANGED <<py_rng, np_rng, driver>>

\* show(): _setup_figure, _initialize_simulation, _update_display.
Show ==
    /\ viz.sim = <<>>
    /\ initialize_simulation(viz.running)

\* _on_reset: running = False, then _initialize_simulation.
OnReset ==
    /\ AllIdle
    /\ viz.sim # <<>>
    /\ initialize_simulation(FALSE)

\* A faulty _on_snp_change that leaves out "self.sim.params.snp_rate = val".
OnSnpChangeLocal(val) ==
    /\ AllIdle
    /\ viz' = [viz EXCEPT !.params.snp_rate = val]
    /\ UNCHANGED <<live, heap, params, state, hooks, frame, notified, py_rng, np_rng,
                   driver>>

\* _on_indel_change(val)
OnIndelChange(val) ==
    /\ AllIdle
    /\ viz' = [viz EXCEPT !.params.indel_rate = val]
    /\ params' = IF viz.sim = <<>> THEN params
                 ELSE [params EXCEPT ![viz.sim[1]].indel_rate = val]
    /\ UNCHANGED <<live, heap, state, hooks, frame, notified, py_rng, np_rng, driver>>

\* _on_size_change(val)
OnSizeChange(val) ==
    /\ AllIdle
    /\ viz' = [viz EXCEPT !.params.indel_size_lambda = val]
    /\ params' = IF viz.sim = <<>> THEN params
                 ELSE [params EXCEPT ![viz.sim[1]].indel_size_lambda = val]
    /\ UNCHANGED <<live, heap, state, hooks, frame, notified, py_rng, np_rng, driver>>

\* _on_snp_change(val)
OnSnpChange(val) ==
    /\ AllIdle
    /\ viz' = [viz EXCEPT !.params.snp_rate = val]
    /\ params' = IF viz.sim = <<>> THEN params
                 ELSE [params EXCEPT ![viz.sim[1]].snp_rate = val]
    /\ UNCHANGED <<live, heap, state, hooks, frame, notified, py_rng, np_rng, driver>>

\* _on_start_stop
OnStartStop ==
    /\ AllIdle
    /\ viz' = [viz EXCEPT !.running = ~@]
    /\ UNCHANGED <<live, heap, params, state, hooks, frame, notified, py_rng, np_rng,
                   driver>>

\* _on_step: "if self.sim: self.sim.step()", then the redraw.
OnStep ==
    /\ viz.sim # <<>>
    /\ StepOnCollapsed(viz.sim[1]) \/ StepCall(viz.sim[1])

\* _animation_step, a timer tick: "if self.running and self.sim:
\* self.sim.step()", then the redraw; the frame keeps who called step().
AnimationStep ==
    /\ viz.running /\ viz.sim # <<>>
    /\ LET e == viz.sim[1]
       IN  /\ CanCall(e)
           /\ IF state[e].collapsed
              THEN /\ frame' = [frame EXCEPT ![e] =
                          [Returned("step", <<>>) EXCEPT !.caller = "_animation_step"]]
                   /\ UNCHANGED <<live, heap, params, state, hooks, notified, py_rng,
                                  np_rng, viz, driver>>
              ELSE /\ state[e].generation < MaxGen
                   /\ BeginStep(e, [IdleFrame EXCEPT !.caller = "_animation_step"], driver)

\* The steps of the visualizer's engine.  Its min_array_size is positive, so
\* the step that empties the array ends collapsed and no later step enters
\* the loop of _apply_indels on an empty array.
NextViz ==
    \/ Show
    \/ OnReset
    \/ \E val \in SliderRates : OnIndelChange(val)
    \/ \E val \in SliderSizes : OnSizeChange(val)
    \/ \E val \in SliderRates : OnSnpChange(val)
    \/ OnBoundToggle
    \/ OnStartStop
    \/ OnStep
    \/ AnimationStep
    \/ SnpIter(1)
    \/ SnpDone(1)
    \/ IndelIter(1)
    \/ IndelDone(1)

SpecViz == InitViz /\ [][NextViz]_vars

\* ------------------------------------------------- statistics between calls
\* CentromereSimulator.get_unique_sequences: [] when "not self.state.seq", else
\* the set of unit contents.
get_unique_sequences(h, st) ==
    IF ~HasSeq(st) THEN {} ELSE Range(Contents(h, st.seq[1]))

\* sum(1 for e in history if e.event_type == t)
CountEvents(history, t) == Len(SelectSeq(history, LAMBDA ev : ev.event_type = t))

\* CentromereSimulator.get_statistics: the dict it returns; diversity, a
\* float, is kept as the fraction <<numerator, denominator>> (0 is <<0, 1>>).
get_statistics(h, st) ==
    LET unique == get_unique_sequences(h, st)
    IN  [generation       |-> st.generation,
         array_size       |-> size(st),
         unique_sequences |-> Cardinality(unique),
         diversity        |-> IF size(st) > 0 THEN <<Cardinality(unique), size(st)>>
                              ELSE <<0, 1>>,
         total_events     |-> Len(st.history),
         snps             |-> CountEvents(st.history, "snp"),
         duplications     |-> CountEvents(st.history, "dup"),
         deletions        |-> CountEvents(st.history, "del"),
         collapsed        |-> st.collapsed]

\* A faulty get_statistics that samples the units with random.choice before
\* counting them.
GetStatisticsSampling(e) ==
    /\ CanCall(e)
    /\ frame' = [frame EXCEPT ![e] =
                    Returned("get_statistics", <<get_statistics(heap, state[e])>>)]
    /\ py_rng' = Advance(py_rng)
    /\ driver' = Called(driver, e, "get_statistics", 0)
    /\ UNCHANGED <<live, heap, params, state, hooks, notified, np_rng, viz>>

\* sim.get_statistics(), between two calls of the driver.
GetStatistics(e) ==
    /\ CanCall(e)
    /\ frame' = [frame EXCEPT ![e] =
                    Returned("get_statistics", <<get_statistics(heap, state[e])>>)]
    /\ driver' = Called(driver, e, "get_statistics", 0)
    /\ UNCHANGED <<live, heap, params, state, hooks, notified, py_rng, np_rng, viz>>

\* The engines whose statistics are read: one that can be emptied, one of
\* zero-length units, one that collapses at its floor.
StatsConfigs ==
    {Config(SimulationParams(1, 1, 1, 0, 4, FALSE, 1, AC, 2), Recording),
     Config(SimulationParams(1, 1, 1, 1, 2, TRUE, 1, <<>>, 2), NoHooks),
     Config(SimulationParams(1, 1, 1, 2, 3, TRUE, 2, AC, 2), NoHooks)}

\* The engine is constructed without a seed, or with one.
StatsSeeds == {<<>>, <<1>>, <<6>>}

\* CentromereSimulator(p, seed) was constructed.
InitStats ==
    \E c \in StatsConfigs, seed \in StatsSeeds :
        /\ live = {1}
        /\ heap = <<>>
        /\ params = [e \in Engines |-> IF e = 1 THEN c.params ELSE NoParams]
        /\ state = [e \in Engines |-> SimulationState]
        /\ hooks = [e \in Engines |-> IF e = 1 THEN c.hooks ELSE NoHooks]
        /\ frame = [e \in Engines |-> IdleFrame]
        /\ notified = [e \in Engines |-> <<>>]
        /\ py_rng = (IF seed = <<>> THEN OsEntropy ELSE SeedState(seed[1]))
        /\ np_rng = (IF seed = <<>> THEN OsEntropy ELSE SeedState(seed[1]))
        /\ viz = [params |-> VizParams(c.params), sim |-> <<1>>]
        /\ driver = [NoDriver EXCEPT !.seed[1] = seed,
                                     !.owner = IF seed = <<>> THEN <<>> ELSE <<1>>,
                                     !.alone[1] = seed # <<>>]

NextStats ==
    \/ Next
    \/ GetStatistics(1)

SpecStats == InitStats /\ [][NextStats]_vars

\* ------------------------------------------------- the array on its own
\* RepeatSequence used directly: an array built by from_sequence, then any
\* duplicate_units / delete_units / __setitem__ calls.  The array is kept as
\* engine 1's seq; frame[1].events logs the calls as [op, a, b].
SeqInputs ==
    {[sequence |-> <<"A", "C", "G", "T", "C", "A">>, repeat_size |-> 2],
     [sequence |-> <<"A", "A", "A", "A">>, repeat_size |-> 2],
     [sequence |-> <<"A", "C", "G">>, repeat_size |-> 1],
     [sequence |-> <<"G", "T">>, repeat_size |-> 2]}

SeqLog == frame[1].events

SeqLogged(op, a, b) ==
    frame' = [frame EXCEPT ![1].events = Append(@, [op |-> op, a |-> a, b |-> b])]

SeqArray == state[1].seq[1]

\* The valid ranges 0 <= start < end <= unit_count.
SeqRanges == {r \in (0..MaxUnits) \X (0..MaxUnits) :
                 r[1] < r[2] /\ r[2] <= num_units(SeqArray)}

InitSeq ==
    \E in \in SeqInputs :
        LET fs == from_sequence(<<>>, in.sequence, in.repeat_size)
        IN  /\ live = {1}
            /\ heap = fs.heap
            /\ params = [e \in Engines |-> NoParams]
            /\ state = [e \in Engines |->
                          IF e = 1 THEN [SimulationState EXCEPT !.seq = <<fs.seq>>]
                          ELSE SimulationState]
            /\ hooks = [e \in Engines |-> NoHooks]
            /\ frame = [e \in Engines |-> IdleFrame]
            /\ notified = [e \in Engines |-> <<>>]
            /\ py_rng = OsEntropy
            /\ np_rng = OsEntropy
            /\ viz = [params |-> VizParams(NoParams), sim |-> <<>>]
            /\ driver = NoDriver

\* seq.duplicate_units(start, end)
SeqDuplicate(start, end) ==
    /\ Len(SeqLog) < MaxOps
    /\ num_units(SeqArray) + (end - start) <= MaxUnits
    /\ LET d == duplicate_units(heap, SeqArray, start, end)
       IN  /\ heap' = d.heap
           /\ state' = [state EXCEPT ![1].seq = <<d.seq>>]
    /\ SeqLogged("duplicate_units", start, end)
    /\ UNCHANGED <<live, params, hooks, notified, py_rng, np_rng, viz, driver>>

\* seq.delete_units(start, end)
SeqDelete(start, end) ==
    /\ Len(SeqLog) < MaxOps
    /\ LET d == delete_units(heap, SeqArray, start, end)
       IN  /\ heap' = Collect(d.heap, Range(d.seq.units))
           /\ state' = [state EXCEPT ![1].seq = <<d.seq>>]
    /\ SeqLogged("delete_units", start, end)
    /\ UNCHANGED <<live, params, hooks, notified, py_rng, np_rng, viz, driver>>

\* seq.duplicate_units(start, end); seq.delete_units(end, end + (end - start))
SeqDuplicateDelete(start, end) ==
    /\ Len(SeqLog) < MaxOps
    /\ LET d == duplicate_units(heap, SeqArray, start, end)
           r == delete_units(d.heap, d.seq, end, end + (end - start))
       IN  /\ heap' = Collect(r.heap, Range(r.seq.units))
           /\ state' = [state EXCEPT ![1].seq = <<r.seq>>]
    /\ SeqLogged("duplicate_delete", start, end)
    /\ UNCHANGED <<live, params, hooks, notified, py_rng, np_rng, viz, driver>>

\* seq[idx] = BASES[k]
SeqSetItem(idx, k) ==
    /\ Len(SeqLog) < MaxOps
    /\ heap' = seq_setitem(heap, SeqArray, idx, BASES[k])
    /\ SeqLogged("__setitem__", idx, k)
    /\ UNCHANGED <<live, params, state, hooks, notified, py_rng, np_rng, viz, driver>>

NextSeq ==
    \/ \E r \in SeqRanges : SeqDuplicate(r[1], r[2])
    \/ \E r \in SeqRanges : SeqDelete(r[1], r[2])
    \/ \E r \in SeqRanges : SeqDuplicateDelete(r[1], r[2])
    \/ \E idx \in 0..(seq_len(SeqArray) - 1) : \E k \in 1..Len(BASES) : SeqSetItem(idx, k)

SpecSeq == InitSeq /\ [][NextSeq]_vars

\* ------------------------------------- the array called with any arguments
\* The same array, with arguments that need not be in range.  Each call logs
\* [op, a, b] and leaves in frame[1] what the caller gets: the value returned
\* (ret) or the exception raised (exc).
SeqCalled(op, a, b, ret, exc) ==
    frame' = [frame EXCEPT ![1] =
                 [@ EXCEPT !.events = Append(@, [op |-> op, a |-> a, b |-> b]),
                           !.last = op, !.ret = ret, !.exc = exc]]

\* Unit arguments around [0, num_units], bp arguments around [0, len(seq)].
UnitArgs == (0 - num_units(SeqArray) - 1)..(num_units(SeqArray) + 1)

BpArgs == (0 - seq_len(SeqArray) - 1)..(seq_len(SeqArray) + 1)

\* seq.duplicate_units(start, end): two slice operations, which never raise.
DuplicateUnitsCall(start, end) ==
    /\ Len(SeqLog) < MaxOps
    /\ LET d == duplicate_units(heap, SeqArray, start, end)
       IN  /\ num_units(d.seq) <= MaxUnits
           /\ heap' = d.heap
           /\ state' = [state EXCEPT ![1].seq = <<d.seq>>]
    /\ SeqCalled("duplicate_units", start, end, <<>>, None)
    /\ UNCHANGED <<live, params, hooks, notified, py_rng, np_rng, viz, driver>>

\* seq.delete_units(start, end): a slice deletion, which never raises.
DeleteUnitsCall(start, end) ==
    /\ Len(SeqLog) < MaxOps
    /\ LET d == delete_units(heap, SeqArray, start, end)
       IN  /\ heap' = Collect(d.heap, Range(d.seq.units))
           /\ state' = [state EXCEPT ![1].seq = <<d.seq>>]
    /\ SeqCalled("delete_units", start, end, <<>>, None)
    /\ UNCHANGED <<live, params, hooks, notified, py_rng, np_rng, viz, driver>>

\* seq.get_unit(idx): self.units[idx] raises IndexError outside
\* [-num_units, num_units).
GetUnitCall(idx) ==
    /\ Len(SeqLog) < MaxOps
    /\ IF PyIndex(idx, num_units(SeqArray)) = 0
       THEN SeqCalled("get_unit", idx, 0, <<>>, "IndexError")
       ELSE SeqCalled("get_unit", idx, 0, <<get_unit(heap, SeqArray, idx)>>, None)
    /\ UNCHANGED <<live, heap, params, state, hooks, notified, py_rng, np_rng,
                   viz, driver>>

\* seq[idx]: self.units[idx // repeat_size] raises IndexError when the
\* quotient is outside [-num_units, num_units).
GetItemCall(idx) ==
    /\ Len(SeqLog) < MaxOps
    /\ IF PyIndex(UnitOf(SeqArray, idx), num_units(SeqArray)) = 0
       THEN SeqCalled("__getitem__", idx, 0, <<>>, "IndexError")
       ELSE SeqCalled("__getitem__", idx, 0,
                      <<seq_getitem(heap, SeqArray, idx)>>, None)
    /\ UNCHANGED <<live, heap, params, state, hooks, notified, py_rng, np_rng,
                   viz, driver>>

\* seq[idx] = BASES[k]
SetItemCall(idx, k) ==
    /\ Len(SeqLog) < MaxOps
    /\ IF PyIndex(UnitOf(SeqArray, idx), num_units(SeqArray)) = 0
       THEN /\ SeqCalled("__setitem__", idx, k, <<>>, "IndexError")
            /\ heap' = heap
       ELSE /\ SeqCalled("__setitem__", idx, k, <<>>, None)
            /\ heap' = seq_setitem(heap, SeqArray, idx, BASES[k])
    /\ UNCHANGED <<live, params, state, hooks, notified, py_rng, np_rng, viz, driver>>

NextSeqArgs ==
    \/ \E start \in UnitArgs : \E end \in UnitArgs : DuplicateUnitsCall(start, end)
    \/ \E start \in UnitArgs : \E end \in UnitArgs : DeleteUnitsCall(start, end)
    \/ \E idx \in UnitArgs : GetUnitCall(idx)
    \/ \E idx \in BpArgs : GetItemCall(idx)
    \/ \E idx \in BpArgs : \E k \in 1..Len(BASES) : SetItemCall(idx, k)

SpecSeqArgs == InitSeq /\ [][NextSeqArgs]_vars

\* ----------------------------------------------------------------- claims
RECURSIVE NetGrowth(_)
\* Units added minus units removed by a list of events.
NetGrowth(events) ==
    IF events = <<>> THEN 0
    ELSE NetGrowth(Tail(events))
         + (IF events[1].event_type = "dup" THEN events[1].size
            ELSE IF events[1].event_type = "del" THEN 0 - events[1].size
            ELSE 0)

\* A generation boundary of engine e: initialize() was called and no call is
\* executing (the last one returned normally).
Boundary(e) ==
    e \in live /\ Idle(e) /\ state[e].seq # NoSeq /\ frame[e].exc = None

EventTypes(e) == {state[e].history[i].event_type : i \in 1..Len(state[e].history)}

\* C2 (as stated): at every generation boundary, from generation 0 on, an
\* engine with bounding_enabled that is not collapsed holds between
\* min_array_size and max_array_size units.
C2_BoundInvariant ==
    \A e \in live :
        (Boundary(e) /\ params[e].bounding_enabled /\ ~state[e].collapsed)
        => /\ params[e].min_array_size <= size(state[e])
           /\ size(state[e]) <= params[e].max_array_size

\* C3 (as stated): consecutive_failures never exceeds max_consecutive_failures,
\* and once it reaches it the structural loop is left (the engine collapsed), so
\* the loop is never about to make another attempt with the budget spent.
C3_FailureBudget ==
    \A e \in live :
        /\ frame[e].consecutive_failures <= params[e].max_consecutive_failures
        /\ frame[e].pc = "indel_loop"
           => frame[e].consecutive_failures < params[e].max_consecutive_failures

\* C6: no step()/run() clears collapsed (only initialize() does), and from a
\* boundary at which the engine is collapsed every call other than initialize()
\* leaves generation, array, history and the observers' log as they were; a
\* step() made there returns the empty list.
C6_CollapsedTerminal ==
    [][\A e \in live :
          (state[e].collapsed /\ ~Initialize(e))
          => /\ state'[e].collapsed
             /\ Boundary(e)
                => /\ state'[e] = state[e]
                   /\ repeats(heap', state'[e]) = repeats(heap, state[e])
                   /\ notified'[e] = notified[e]
                   /\ (frame'[e] # frame[e] /\ frame'[e].last = "step")
                      => frame'[e].ret = <<>>]_vars

\* C6 witness: a step() returned the empty list on a collapsed engine with
\* recording observers, whose last generation had produced events (so it is not
\* the step that collapsed it).
C6_Witness ==
    /\ Boundary(1) /\ state[1].collapsed
    /\ hooks[1] = Recording
    /\ frame[1].last = "step" /\ frame[1].ret = <<>>
    /\ state[1].history # <<>>
    /\ state[1].history[Len(state[1].history)].generation = state[1].generation

\* C8: every unit of an initialized engine has exactly repeat_size bases, where
\* repeat_size is the length of initial_monomer, and the base-pair length is
\* unit_count * repeat_size.
C8_StructuralInvariant ==
    \A e \in live :
        state[e].seq # NoSeq
        => LET seq == state[e].seq[1]
           IN  /\ seq.repeat_size = Len(params[e].initial_monomer)
               /\ \A i \in 1..Len(seq.units) : Len(heap[seq.units[i]]) = seq.repeat_size
               /\ bp_length(state[e]) = num_units(seq) * seq.repeat_size
               /\ bp_length(state[e]) = size(state[e]) * seq.repeat_size

\* C8 witness: a boundary after a generation with an SNP and a duplication.
C8_Witness ==
    /\ Boundary(1)
    /\ {"snp", "dup"} \subseteq EventTypes(1)
    /\ size(state[1]) >= 2

\* The call the array has just been through, when this step made one.
SeqDid(op) ==
    /\ Len(SeqLog') = Len(SeqLog) + 1
    /\ SeqLog'[Len(SeqLog')].op = op

SeqLast == SeqLog[Len(SeqLog)]

\* C9: duplicate_units(start, end) followed by delete_units(end, end + (end -
\* start)), for 0 <= start < end <= unit_count, leaves the unit count and the
\* sequence of unit contents as they were.
C9_StructuralInverse ==
    [][SeqDid("duplicate_delete")
       => /\ size(state'[1]) = size(state[1])
          /\ repeats(heap', state'[1]) = repeats(heap, state[1])]_vars

\* C9 witness: the round trip was made on an inner range of an array of
\* three different units.
C9_Witness ==
    /\ SeqLog # <<>> /\ SeqLast.op = "duplicate_delete"
    /\ SeqLast.a = 1 /\ SeqLast.b = 2
    /\ size(state[1]) = 3
    /\ Cardinality(Range(repeats(heap, state[1]))) = 3

\* C10: duplicate_units(start, end) adds end - start units; the units at
\* [end, end + (end - start)) equal the original [start, end), those at [0, end)
\* are unchanged, those originally at i >= end are at i + (end - start); the
\* inserted units are new objects, so no two entries of the array are the same
\* object and a single-base write changes the content of one unit only.
C10_DuplicationContent ==
    [][/\ SeqDid("duplicate_units")
          => LET start == SeqLog'[Len(SeqLog')].a
                 end   == SeqLog'[Len(SeqLog')].b
                 n     == end - start
                 old   == repeats(heap, state[1])
                 new   == repeats(heap', state'[1])
                 units == state'[1].seq[1].units
             IN  /\ Len(new) = Len(old) + n
                 /\ \A i \in 0..(end - 1) : new[i + 1] = old[i + 1]
                 /\ \A i \in 0..(n - 1) : new[end + i + 1] = old[start + i + 1]
                 /\ \A i \in end..(Len(old) - 1) : new[i + n + 1] = old[i + 1]
                 /\ \A i \in 0..(n - 1) :
                        /\ units[end + i + 1] \notin DOMAIN heap
                        /\ \A j \in 1..Len(units) :
                               j # end + i + 1 => units[j] # units[end + i + 1]
       /\ SeqDid("__setitem__")
          => LET idx == SeqLog'[Len(SeqLog')].a
                 old == repeats(heap, state[1])
                 new == repeats(heap', state'[1])
             IN  \A i \in 0..(Len(old) - 1) :
                     i # UnitOf(SeqArray, idx) => new[i + 1] = old[i + 1]]_vars

\* C10 witness: unit 0 was duplicated, then a base of the copy (unit 1) was
\* overwritten: the copy differs from the original, which still reads as
\* before.
C10_Witness ==
    /\ Len(SeqLog) = 2
    /\ SeqLog[1] = [op |-> "duplicate_units", a |-> 0, b |-> 1]
    /\ SeqLog[2].op = "__setitem__"
    /\ UnitOf(SeqArray, SeqLog[2].a) = 1
    /\ get_unit(heap, SeqArray, 0) = <<"A", "C">>
    /\ get_unit(heap, SeqArray, 1) = <<"A", "T">>

\* C4 (as stated) needs every started structural loop to end whatever is drawn.
\* A rejected draw leaves the array and the parameters as they are, so the
\* loop can only end if, in each of its states, some draw is accepted or ends
\* it: that much is stated here.
C4_StepTerminates ==
    \A e \in live :
        (frame[e].pc = "indel_loop" /\ frame[e].count < frame[e].n_indels
         /\ size(state[e]) # 0 /\ params[e].max_consecutive_failures >= 1)
        => \E c \in Choice(py_rng, 2) :
           \E n \in Poisson(np_rng, params[e].indel_size_lambda, MaxIndelSize) :
           \E unit_start \in RandInt(Advance(py_rng), 0, size(state[e]) - 1) :
              indel_attempt(heap, params[e], state[e], frame[e], c = 1,
                            Max(1, n), unit_start).verdict # "continue"

\* C5 (as stated): in the forced-collapse scenario the engine is collapsed
\* only with exactly 5 units.
C5_CollapsedAtFloor ==
    (state[1].seq # NoSeq /\ state[1].collapsed) => size(state[1]) = 5

\* C5 (amended): in the forced-collapse scenario the array never has fewer
\* than 5 units, no deletion that would go below 5 is applied (the unit count
\* is 5 plus the duplications minus the deletions recorded), and the engine
\* collapses with whatever count >= 5 the accepted events have left.
C5_NeverBelowFloor ==
    state[1].seq # NoSeq
    => /\ size(state[1]) >= 5
       /\ size(state[1]) = 5 + NetGrowth(state[1].history \o frame[1].events)
       /\ \A i \in 1..Len(frame[1].events) :
              frame[1].events[i].event_type = "del"
              => 5 + NetGrowth(state[1].history \o SubSeq(frame[1].events, 1, i)) >= 5

\* C5 witness: the engine collapsed at a boundary with 6 units, a duplication
\* having been accepted before the failures.
C5_Witness ==
    /\ Boundary(1) /\ state[1].collapsed
    /\ size(state[1]) = 6
    /\ "dup" \in EventTypes(1)

\* C1 (as stated): two engines constructed with the same seed and params,
\* initialized and driven by the same sequence of calls have the same history,
\* generation, unit contents and collapsed flag, whatever else the process did.
C1_Determinism ==
    \A a \in live : \A b \in live :
        ( /\ Boundary(a) /\ Boundary(b)
          /\ driver.seed[a] = driver.seed[b] /\ params[a] = params[b]
          /\ driver.calls[a] = driver.calls[b] )
        => /\ state[a].history = state[b].history
           /\ state[a].generation = state[b].generation
           /\ state[a].collapsed = state[b].collapsed
           /\ repeats(heap, state[a]) = repeats(heap, state[b])

RECURSIVE Requested(_)
\* The generations a list of calls asks for: 1 per step(), n per run(n).
Requested(calls) ==
    IF calls = <<>> THEN 0
    ELSE Requested(Tail(calls))
         + (IF calls[1][1] = "step" THEN 1
            ELSE IF calls[1][1] = "run" THEN calls[1][2]
            ELSE 0)

\* C7: run(n) makes at most n steps, none on a collapsed engine, stops early
\* only on a collapsed engine, and moves generation by the steps it made; and
\* two engines with the same seed and params whose draws were not disturbed end
\* in the same state and history whenever their calls ask for the same number
\* of generations, be it by run(n) or by single step() calls.
C7_RunIsRepeatedStep ==
    /\ [][\A e \in live :
            /\ (frame[e].pc = "run_loop" /\ frame'[e].pc = "idle")
               => /\ frame[e].run_i <= frame[e].generations
                  /\ frame[e].run_i < frame[e].generations => state[e].collapsed
                  /\ state[e].generation = frame[e].entry_generation + frame[e].run_i
            /\ (frame[e].pc = "run_loop" /\ frame'[e].pc = "snp_loop")
               => /\ ~state[e].collapsed
                  /\ frame'[e].run_i <= frame[e].generations]_vars
    /\ [](\A a \in live : \A b \in live :
            ( /\ Boundary(a) /\ Boundary(b)
              /\ driver.alone[a] /\ driver.alone[b]
              /\ Requested(driver.calls[a]) = Requested(driver.calls[b]) )
            => /\ state[a].history = state[b].history
               /\ state[a].generation = state[b].generation
               /\ state[a].collapsed = state[b].collapsed
               /\ repeats(heap, state[a]) = repeats(heap, state[b]))

\* C7 witness: one engine went through run(2), the other, same seed and
\* params, through step(); step(): both made two generations and recorded
\* the same events.
C7_Witness ==
    /\ live = {1, 2} /\ Boundary(1) /\ Boundary(2)
    /\ driver.alone[1] /\ driver.alone[2]
    /\ driver.calls[1] = <<<<"initialize", 0>>, <<"run", 2>>>>
    /\ driver.calls[2] = <<<<"initialize", 0>>, <<"step", 0>>, <<"step", 0>>>>
    /\ state[1].generation = 2
    /\ state[1].history # <<>>
    /\ state[1].history = state[2].history

\* C11: with snp_rate = 0 and indel_rate = 0 an initialized engine keeps, through
\* every step() and run(n), the array initialize() built (initial_size copies of
\* the monomer) and an empty history; no event is ever pending either.
C11_NoOpStability ==
    \A e \in live :
        (Initialized(e) /\ params[e].snp_rate = 0 /\ params[e].indel_rate = 0)
        => /\ state[e].history = <<>>
           /\ frame[e].events = <<>>
           /\ num_units(state[e].seq[1]) = params[e].initial_size
           /\ Contents(heap, state[e].seq[1])
                 = [i \in 1..params[e].initial_size |-> params[e].initial_monomer]

\* C11 witness: run(2) made its two steps on an engine with both rates 0.
C11_Witness ==
    /\ Boundary(1)
    /\ params[1].snp_rate = 0 /\ params[1].indel_rate = 0
    /\ frame[1].last = "run" /\ frame[1].args = <<2, 2>>
    /\ state[1].generation = 2

\* C12 (as stated): initialize() with initial_size <= 0 or an empty
\* initial_monomer fails with ConfigError and leaves no array; no engine ever
\* holds an array built from such a configuration.
C12_InvalidInitialRejected ==
    \A e \in live :
        (params[e].initial_size <= 0 \/ params[e].initial_monomer = <<>>)
        => /\ ~Initialized(e)
           /\ (Idle(e) /\ frame[e].last = "initialize") => frame[e].exc = "ConfigError"

\* C13 (as stated): parameters with min_array_size > max_array_size are
\* rejected by construction or by initialize(): such an engine is never
\* initialized and never steps.
C13_MinAboveMaxRejected ==
    \A e \in live :
        params[e].min_array_size > params[e].max_array_size
        => /\ ~Initialized(e)
           /\ Idle(e) /\ state[e].generation = 0
           /\ frame[e].last = "initialize" => frame[e].exc = "ConfigError"

\* The range a structural call was made with is one the contract accepts.
ValidRange(start, end, n) == 0 <= start /\ start < end /\ end <= n

\* C14: duplicate_units(start, end) and delete_units(start, end) called with
\* an empty range, a reversed range, a negative start or end > unit_count
\* raise an error and leave the array as it was.
C14_RangeChecked ==
    [][(SeqDid("duplicate_units") \/ SeqDid("delete_units"))
       => LET call == SeqLog'[Len(SeqLog')]
          IN  ~ValidRange(call.a, call.b, num_units(SeqArray))
              => /\ frame'[1].exc # None
                 /\ state'[1].seq = state[1].seq
                 /\ heap' = heap]_vars

\* C15: get_unit(i) with i outside [0, unit_count), and a read or write of a
\* base at an index outside [0, bp_length), raise an index error, return
\* nothing and modify nothing.
C15_AccessorsRangeChecked ==
    [][/\ SeqDid("get_unit")
          => LET call == SeqLog'[Len(SeqLog')]
             IN  ~(0 <= call.a /\ call.a < num_units(SeqArray))
                 => /\ frame'[1].exc = "IndexError"
                    /\ frame'[1].ret = <<>>
                    /\ heap' = heap
       /\ (SeqDid("__getitem__") \/ SeqDid("__setitem__"))
          => LET call == SeqLog'[Len(SeqLog')]
             IN  ~(0 <= call.a /\ call.a < seq_len(SeqArray))
                 => /\ frame'[1].exc = "IndexError"
                    /\ frame'[1].ret = <<>>
                    /\ heap' = heap]_vars

\* What the observers of engine e were called with, per kind and in order.
IsMutationNote(n) == n[1] = "on_mutation"

IsGenerationNote(n) == n[1] = "on_generation"

InStep(e) == frame[e].pc \in {"snp_loop", "indel_loop", "post"}

\* The number of notes of each kind among the first k calls.
MutationsBefore(e, k) == Len(SelectSeq(SubSeq(notified[e], 1, k), IsMutationNote))

GenerationsBefore(e, k) == Len(SelectSeq(SubSeq(notified[e], 1, k), IsGenerationNote))

\* C16: with both observers registered, on_mutation has been called exactly
\* once per accepted event, in history order (history, then the events of the
\* step in progress), SNP events of a generation before its structural ones;
\* on_generation has been called exactly once per completed step, after that
\* step's events were appended to history and after its collapse check: call
\* g carries generation g, the history length after generation g and the
\* collapsed flag the step ended with.
C16_ObserverOrdering ==
    \A e \in live :
        (hooks[e] = Recording /\ Initialized(e))
        => LET log  == notified[e]
               n    == Len(log)
               done == state[e].generation - (IF InStep(e) THEN 1 ELSE 0)
           IN  /\ [k \in 1..MutationsBefore(e, n) |->
                      SelectSeq(log, IsMutationNote)[k][2]]
                     = state[e].history \o frame[e].events
               /\ GenerationsBefore(e, n) = done
               /\ \A k \in 1..n :
                      IF IsGenerationNote(log[k])
                      THEN LET g == GenerationsBefore(e, k)
                           IN  /\ log[k][2].generation = g
                               /\ log[k][2].nhistory = MutationsBefore(e, k)
                               /\ log[k][2].collapsed
                                     = (g = done /\ ~InStep(e) /\ state[e].collapsed)
                               /\ (g = done /\ ~InStep(e))
                                     => /\ log[k][2].nhistory = Len(state[e].history)
                                        /\ log[k][2].size = size(state[e])
                      ELSE /\ log[k][2].generation = GenerationsBefore(e, k) + 1
                           /\ \A j \in 1..(k - 1) :
                                  (IsMutationNote(log[j])
                                   /\ log[j][2].generation = log[k][2].generation
                                   /\ log[k][2].event_type = "snp")
                                  => log[j][2].event_type = "snp"

\* C16 witness: two generations completed with both observers recording; the
\* second one accepted an SNP and then a structural event.
C16_Witness ==
    /\ Boundary(1) /\ hooks[1] = Recording
    /\ state[1].generation = 2
    /\ GenerationsBefore(1, Len(notified[1])) = 2
    /\ \E i, j \in 1..Len(state[1].history) :
           /\ i < j
           /\ state[1].history[i].generation = 2
           /\ state[1].history[j].generation = 2
           /\ state[1].history[i].event_type = "snp"
           /\ state[1].history[j].event_type \in {"dup", "del"}

\* Engine e's callback of this kind is called in this step and raises.
ObserverRaises(e, kind) ==
    /\ Len(notified'[e]) = Len(notified[e]) + 1
    /\ notified'[e][Len(notified'[e])][1] = kind
    /\ hooks[e][kind] = "raises"

\* C17: when on_mutation or on_generation raises during step(), the call that
\* was made (step() or run()) ends there with that exception, whatever
\* iterations run() had left, and an engine never reports the exception
\* otherwise.
C17_ObserverFailurePropagates ==
    [][\A e \in live :
          /\ (ObserverRaises(e, "on_mutation") \/ ObserverRaises(e, "on_generation"))
             => /\ InStep(e)
                /\ Idle(e)'
                /\ frame'[e].exc = "ObserverError"
                /\ frame'[e].last = frame[e].caller
                /\ frame'[e].ret = <<>>
          /\ (frame'[e].exc = "ObserverError" /\ frame[e] # frame'[e])
             => ObserverRaises(e, "on_mutation") \/ ObserverRaises(e, "on_generation")]_vars

\* C17 witness: run(2) ended with the observer's exception in its first
\* step, with one iteration left.
C17_Witness ==
    /\ frame[1].exc = "ObserverError"
    /\ frame[1].last = "run"
    /\ frame[1].args = <<2, 1>>
    /\ state[1].generation = 1

\* Engine e has just returned from get_statistics().
GotStatistics(e) ==
    frame'[e].last = "get_statistics" /\ frame'[e] # frame[e]

\* C18: a call of get_statistics() leaves the engine's state (generation,
\* array, history, collapsed), the contents of every unit, the parameters and
\* both random generators exactly as they were, so every later step draws and
\* does what it would have without the call.
C18_StatisticsPureRead ==
    [][\A e \in live :
          GotStatistics(e)
          => /\ state' = state
             /\ heap' = heap
             /\ params' = params
             /\ py_rng' = py_rng
             /\ np_rng' = np_rng
             /\ notified' = notified
             /\ frame'[e].exc = None
             /\ frame'[e].pc = "idle"]_vars

\* C18 witness: statistics were read on a seeded, active engine with events
\* in its history.
C18_Witness ==
    /\ frame[1].last = "get_statistics"
    /\ py_rng.seeded
    /\ Initialized(1) /\ ~state[1].collapsed
    /\ frame[1].ret[1].total_events > 0

\* The units engine e holds, whatever their length, and the number of
\* history events of one kind.
UnitsOf(e) == IF state[e].seq = NoSeq THEN <<>> ELSE Contents(heap, state[e].seq[1])

HistoryCount(e, t) ==
    Cardinality({i \in 1..Len(state[e].history) : state[e].history[i].event_type = t})

\* C19: the statistics get_statistics() has just returned carry the
\* generation counter, array_size = the number of units, unique_sequences =
\* the number of distinct unit contents, diversity = unique_sequences /
\* array_size (0 for an array of no units), the collapsed flag, and per-kind
\* counts of the history events that add up to total_events = len(history).
C19_StatisticsValues ==
    \A e \in live :
        (Idle(e) /\ frame[e].last = "get_statistics")
        => LET s == frame[e].ret[1]
           IN  /\ s.generation = state[e].generation
               /\ s.array_size = Len(UnitsOf(e))
               /\ s.unique_sequences = Cardinality(Range(UnitsOf(e)))
               /\ s.diversity = IF s.array_size > 0
                                THEN <<s.unique_sequences, s.array_size>>
                                ELSE <<0, 1>>
               /\ s.collapsed = state[e].collapsed
               /\ s.snps = HistoryCount(e, "snp")
               /\ s.duplications = HistoryCount(e, "dup")
               /\ s.deletions = HistoryCount(e, "del")
               /\ s.snps + s.duplications + s.deletions = Len(state[e].history)
               /\ s.total_events = Len(state[e].history)

\* s is a prefix of t.
IsPrefix(s, t) == Len(s) <= Len(t) /\ SubSeq(t, 1, Len(s)) = s

\* C20: except when initialize() installs a new state, the history before a
\* step is a prefix of the history after it; while step() is executing its
\* two phases the history is untouched; and when step() returns, the list it
\* returns is exactly what it appended.
C20_HistoryAppendOnly ==
    [][\A e \in live :
          /\ \/ IsPrefix(state[e].history, state'[e].history)
             \/ /\ frame'[e].last = "initialize" /\ Idle(e) /\ Idle(e)'
                /\ state'[e].history = <<>> /\ state'[e].generation = 0
          /\ (InStep(e) /\ InStep(e)') => state'[e].history = state[e].history
          /\ (InStep(e) /\ frame[e].caller = "run" /\ frame'[e].pc = "run_loop")
             => state'[e].history = state[e].history \o frame[e].events
          /\ (frame'[e].last = "step" /\ frame'[e].exc = None /\ frame'[e] # frame[e])
             => state'[e].history = state[e].history \o frame'[e].ret]_vars

\* C20 witness: step() returned a non-empty list on an engine whose history
\* already held events of an earlier generation.
C20_Witness ==
    /\ Boundary(1)
    /\ frame[1].last = "step" /\ frame[1].ret # <<>>
    /\ Len(state[1].history) > Len(frame[1].ret)
    /\ state[1].history[1].generation < frame[1].ret[1].generation

\* C21 (as stated): an engine whose step() calls were interleaved with those
\* of an engine of another seed has the history, generation, unit contents and
\* collapsed flag that an engine of the same seed, params and calls has when
\* driven alone.
C21_InstanceIndependence ==
    ( /\ ReferenceRuns
      /\ Boundary(1) /\ Boundary(2)
      /\ params[1] = params[2]
      /\ driver.calls[1] = driver.calls[2] )
    => /\ state[1].history = state[2].history
       /\ state[1].generation = state[2].generation
       /\ state[1].collapsed = state[2].collapsed
       /\ repeats(heap, state[1]) = repeats(heap, state[2])

\* Engine e's step() finishes its two phases in this transition (it is not
\* cut short by an exception from on_mutation).
StepEnded(e) ==
    InStep(e) /\ ~InStep(e)' /\ ~ObserverRaises(e, "on_mutation")

\* C22: when a step() has gone through its phases, fewer units than
\* min_array_size means the engine is collapsed, with or without bounding,
\* with or without accepted events.
C22_PostPhaseCollapse ==
    [][\A e \in live :
          StepEnded(e)
          => (Len(UnitsOf(e))' < params[e].min_array_size => state'[e].collapsed)]_vars

\* C22 witness: without bounding, a deletion took the array below
\* min_array_size and the step ended collapsed.
C22_Witness ==
    /\ Boundary(1) /\ frame[1].last = "step"
    /\ ~params[1].bounding_enabled
    /\ frame[1].ret # <<>> /\ frame[1].ret[Len(frame[1].ret)].event_type = "del"
    /\ Len(UnitsOf(1)) < params[1].min_array_size
    /\ state[1].collapsed

\* Engine e applies an SNP in this transition, and the event it builds.
SnpApplied(e) ==
    /\ frame[e].pc = "snp_loop"
    /\ \/ frame'[e].pc = "snp_loop" /\ Len(frame'[e].events) = Len(frame[e].events) + 1
       \/ ObserverRaises(e, "on_mutation")

SnpEvent(e) ==
    IF ObserverRaises(e, "on_mutation")
    THEN notified'[e][Len(notified'[e])][2]
    ELSE frame'[e].events[Len(frame'[e].events)]

\* The base at bp position pos of a list of equal-length units.
BaseAt(units, pos) == units[(pos \div Len(units[1])) + 1][(pos % Len(units[1])) + 1]

\* C23: an SNP event has size 1 and a position in [0, bp_length); its
\* details are the base that was at that position and a base of BASES
\* different from it; after the edit that position holds the new base, every
\* other position of every unit holds what it held, and the array has the same
\* units in the same order.
C23_SnpEffect ==
    [][\A e \in live :
          SnpApplied(e)
          => LET ev  == SnpEvent(e)
                 old == UnitsOf(e)
                 new == UnitsOf(e)'
                 bp  == Len(old) * Len(old[1])
             IN  /\ ev.event_type = "snp" /\ ev.size = 1
                 /\ ev.generation = state[e].generation
                 /\ 0 <= ev.position /\ ev.position < bp
                 /\ ev.details[1] = BaseAt(old, ev.position)
                 /\ ev.details[2] \in Range(BASES)
                 /\ ev.details[2] # ev.details[1]
                 /\ state'[e] = state[e]
                 /\ Len(new) = Len(old)
                 /\ \A u \in 1..Len(old) : Len(new[u]) = Len(old[u])
                 /\ \A pos \in 0..(bp - 1) :
                        BaseAt(new, pos) = IF pos = ev.position THEN ev.details[2]
                                           ELSE BaseAt(old, pos)]_vars

\* C23 witness: an SNP was applied to the second unit of an array of two
\* identical units, which now differ in one base.
C23_Witness ==
    /\ frame[1].pc = "snp_loop" /\ frame[1].events # <<>>
    /\ frame[1].events[1].position >= 2
    /\ Len(UnitsOf(1)) = 2
    /\ UnitsOf(1)[1] = AC /\ UnitsOf(1)[2] # AC

\* The structural events among a list of events.
Structural(events) == SelectSeq(events, LAMBDA ev : ev.event_type \in {"dup", "del"})

InIndelPhase(e) == frame[e].pc \in {"indel_loop", "post"}

\* C24: in the structural phase the counter equals the number of structural
\* events accepted in it and never exceeds n_indels; an attempt that is
\* rejected leaves the counter and the events as they were; and a phase that
\* ends on an engine that is not collapsed has accepted exactly n_indels.
C24_RetryAccounting ==
    /\ [](\A e \in live :
            InIndelPhase(e)
            => /\ frame[e].count = Len(Structural(frame[e].events))
               /\ frame[e].count <= frame[e].n_indels)
    /\ [][\A e \in live :
            /\ (frame[e].pc = "indel_loop" /\ InIndelPhase(e)'
                /\ frame'[e].consecutive_failures > frame[e].consecutive_failures)
               => /\ frame'[e].count = frame[e].count
                  /\ frame'[e].events = frame[e].events
                  /\ frame'[e].n_indels = frame[e].n_indels
                  /\ UnitsOf(e)' = UnitsOf(e)
            /\ (InIndelPhase(e) /\ StepEnded(e) /\ ~state'[e].collapsed)
               => Len(Structural(frame[e].events)) = frame[e].n_indels]_vars

\* C24 witness: two attempts in a row were rejected; the phase still has its
\* one event to accept.
C24_Witness ==
    /\ frame[1].pc = "indel_loop"
    /\ frame[1].consecutive_failures >= 2
    /\ frame[1].n_indels = 1 /\ frame[1].count = 0
    /\ ~state[1].collapsed

\* Engine e's step() begins in this transition (called directly or by run()).
StepBegan(e) == ~InStep(e) /\ InStep(e)'

\* C25: a step() on an engine that is not collapsed moves generation up by
\* exactly 1, at its beginning, and nothing else moves it until the step is
\* over (whether it ends collapsed or not); every event accepted in the step
\* carries that value; so the generations along history never decrease and
\* never exceed the counter.
C25_GenerationStamping ==
    /\ [][\A e \in live :
            /\ StepBegan(e)
               => /\ ~state[e].collapsed
                  /\ state'[e].generation = state[e].generation + 1
            /\ (InStep(e) /\ ~StepBegan(e)) => state'[e].generation = state[e].generation
            /\ (~InStep(e) /\ ~StepBegan(e) /\ state'[e].generation # state[e].generation)
               => (frame'[e].last = "initialize" /\ state'[e].generation = 0)]_vars
    /\ [](\A e \in live :
            LET all == state[e].history \o frame[e].events
            IN  /\ InStep(e) => \A i \in 1..Len(frame[e].events) :
                                    frame[e].events[i].generation = state[e].generation
                /\ \A i \in 1..Len(all) :
                       /\ 1 <= all[i].generation
                       /\ all[i].generation <= state[e].generation
                       /\ i > 1 => all[i - 1].generation <= all[i].generation)

\* C25 witness: the second step of an engine ended collapsed, with events of
\* generation 1 and of generation 2 in its history.
C25_Witness ==
    /\ Boundary(1) /\ state[1].collapsed /\ state[1].generation = 2
    /\ Len(state[1].history) >= 2
    /\ state[1].history[1].generation = 1
    /\ state[1].history[Len(state[1].history)].generation = 2

\* Engine e accepts a structural event in this transition, and the event.
IndelAccepted(e) ==
    /\ frame[e].pc = "indel_loop"
    /\ \/ InIndelPhase(e)' /\ Len(frame'[e].events) = Len(frame[e].events) + 1
       \/ ObserverRaises(e, "on_mutation")

IndelEvent(e) ==
    IF ObserverRaises(e, "on_mutation")
    THEN notified'[e][Len(notified'[e])][2]
    ELSE frame'[e].events[Len(frame'[e].events)]

\* C26: an accepted dup/del event has size >= 1 and covers units that existed
\* just before it (0 <= position, position + size <= unit_count); with
\* bounding enabled the array has at most max_array_size units right after an
\* accepted duplication and at least min_array_size right after an accepted
\* deletion.
C26_AcceptedRespectGuards ==
    [][\A e \in live :
          IndelAccepted(e)
          => LET ev == IndelEvent(e)
             IN  /\ ev.event_type \in {"dup", "del"}
                 /\ ev.size >= 1
                 /\ 0 <= ev.position
                 /\ ev.position + ev.size <= Len(UnitsOf(e))
                 /\ (params[e].bounding_enabled /\ ev.event_type = "dup")
                    => Len(UnitsOf(e)') <= params[e].max_array_size
                 /\ (params[e].bounding_enabled /\ ev.event_type = "del")
                    => Len(UnitsOf(e)') >= params[e].min_array_size]_vars

\* C26 witness: with bounding enabled, a duplication of the last unit was
\* accepted and filled the array up to max_array_size.
C26_Witness ==
    /\ InIndelPhase(1) /\ frame[1].events # <<>>
    /\ params[1].bounding_enabled
    /\ LET ev == frame[1].events[Len(frame[1].events)]
       IN  /\ ev.event_type = "dup"
           /\ ev.position + ev.size = Len(UnitsOf(1)) - ev.size
    /\ Len(UnitsOf(1)) = params[1].max_array_size

\* C27: an accepted duplication of size k at start leaves the units in place,
\* followed from start + k by copies of units [start, start + k): k units
\* more; an accepted deletion of size k removes units [start, start + k) and
\* nothing else: k units fewer, the others with their content and order; every
\* unit still has repeat_size bases.
C27_FrameAlignment ==
    [][\A e \in live :
          IndelAccepted(e)
          => LET ev    == IndelEvent(e)
                 old   == UnitsOf(e)
                 new   == UnitsOf(e)'
                 start == ev.position
                 k     == ev.size
             IN  /\ ev.event_type = "dup"
                    => /\ Len(new) = Len(old) + k
                       /\ new = SubSeq(old, 1, start + k)
                                \o SubSeq(old, start + 1, start + k)
                                \o SubSeq(old, start + k + 1, Len(old))
                 /\ ev.event_type = "del"
                    => /\ Len(new) = Len(old) - k
                       /\ new = SubSeq(old, 1, start) \o SubSeq(old, start + k + 1, Len(old))
                 /\ \A u \in 1..Len(new) : Len(new[u]) = state[e].seq[1].repeat_size
                 /\ state'[e].seq[1].repeat_size = state[e].seq[1].repeat_size]_vars

\* C27 witness: of two units that differed by an SNP, the first was deleted
\* and the other is what remains.
C27_Witness ==
    /\ InIndelPhase(1) /\ Len(frame[1].events) >= 2
    /\ frame[1].events[1].event_type = "snp"
    /\ LET ev == frame[1].events[Len(frame[1].events)]
       IN  ev.event_type = "del" /\ ev.position = 0 /\ ev.size = 1
    /\ Len(UnitsOf(1)) = 1
    /\ UnitsOf(1)[1] # AC

\* C28: whatever step() draws, the base it reads and writes in the SNP phase
\* is a base of an existing unit (0 <= bp_pos < bp_length, unit and offset in
\* range), the start of a structural attempt is an existing unit, the range
\* of an accepted one lies within the array; and step()/run() end with no
\* exception of their own: an engine collapses by its flag only.
C28_NoAccessorMisuse ==
    \A e \in live :
        LET st == state[e]
        IN  /\ (frame[e].pc = "snp_loop" /\ frame[e].i < frame[e].n_snps /\ size(st) # 0)
               => /\ 0 <= bp_length(st) - 1
                  /\ \A bp_pos \in RandInt(py_rng, 0, bp_length(st) - 1) :
                         /\ 0 <= bp_pos
                         /\ bp_pos < num_units(st.seq[1]) * st.seq[1].repeat_size
                         /\ UnitOf(st.seq[1], bp_pos) < num_units(st.seq[1])
                         /\ PosOf(st.seq[1], bp_pos)
                               < Len(UnitsOf(e)[UnitOf(st.seq[1], bp_pos) + 1])
            /\ (frame[e].pc = "indel_loop" /\ IndelsLeft(frame[e]) /\ size(st) # 0)
               => \A c \in Choice(py_rng, 2) :
                  \A n \in Poisson(np_rng, params[e].indel_size_lambda, MaxIndelSize) :
                  \A unit_start \in RandInt(Advance(py_rng), 0, size(st) - 1) :
                      /\ 0 <= unit_start /\ unit_start < num_units(st.seq[1])
                      /\ indel_attempt(heap, params[e], st, frame[e], c = 1,
                                       Max(1, n), unit_start).verdict = "accept"
                         => unit_start + Max(1, n) <= num_units(st.seq[1])
            /\ frame[e].exc \in {None, "ObserverError"}
            /\ frame[e].exc = "ObserverError"
               => "raises" \in {hooks[e].on_mutation, hooks[e].on_generation}

\* C28 witness: an SNP was applied at the last base of an array of two
\* units, and a structural attempt is about to be drawn.
C28_Witness ==
    /\ frame[1].pc = "indel_loop" /\ IndelsLeft(frame[1])
    /\ Len(UnitsOf(1)) = 2
    /\ frame[1].events # <<>>
    /\ frame[1].events[1].event_type = "snp"
    /\ frame[1].events[1].position = bp_length(state[1]) - 1
    /\ params[1].initial_monomer # <<>> /\ params[1].initial_size >= 1

\* C29 (as stated): whenever an initialized engine is with its caller - after
\* initialize(), after a return of step()/run(), after a step() ended by an
\* observer's exception - its unit count is initial_size plus the sizes of
\* the 'dup' events minus the sizes of the 'del' events of its history.
C29_HistoryAccountsForUnits ==
    \A e \in live :
        (Idle(e) /\ Initialized(e))
        => Len(UnitsOf(e)) = params[e].initial_size + NetGrowth(state[e].history)

\* C30 (as stated): at every boundary after a step() on an engine that was
\* initialized with at least one unit, whatever its other parameters, an array
\* of no units means the engine is collapsed.
C30_EmptyImpliesCollapsed ==
    \A e \in live :
        (Boundary(e) /\ frame[e].last \in {"step", "run"} /\ state[e].generation >= 1
         /\ params[e].initial_size >= 1)
        => (Len(UnitsOf(e)) = 0 => state[e].collapsed)

\* C31: whenever the visualizer has a simulator, its own params and the
\* simulator's params agree on indel_rate, indel_size_lambda, snp_rate and
\* bounding_enabled; and a step() made by an animation tick is begun, and
\* runs, only while running is true.
C31_VisualizerSync ==
    /\ [](viz.sim # <<>>
          => LET p == params[viz.sim[1]]
             IN  /\ viz.params.indel_rate = p.indel_rate
                 /\ viz.params.indel_size_lambda = p.indel_size_lambda
                 /\ viz.params.snp_rate = p.snp_rate
                 /\ viz.params.bounding_enabled = p.bounding_enabled)
    /\ [](\A e \in live :
            (InStep(e) /\ frame[e].caller = "_animation_step") => viz.running)
    /\ [][\A e \in live :
            (frame'[e].caller = "_animation_step" /\ frame'[e] # frame[e]
             /\ frame[e].caller # "_animation_step")
            => viz.running]_vars

\* C31 witness: every slider was moved and the box unticked while the
\* simulator existed, and an animation tick is stepping it.
C31_Witness ==
    /\ viz.sim = <<1>> /\ viz.running
    /\ InStep(1) /\ frame[1].caller = "_animation_step"
    /\ state[1].generation = 2
    /\ params[1].indel_size_lambda = 2 /\ params[1].snp_rate = 0
    /\ ~params[1].bounding_enabled
    /\ params[1].indel_rate = 1

====
